---- MODULE Spec2Model ----
(***************************************************************************)
(* GemDesk session state machine: the Shelf of uploaded files, the         *)
(* provider-side context cache, the conversation history and the preset    *)
(* override, as implemented by gem.py, file_ops.py and                      *)
(* send_chat_streaming.py.                                                  *)
(*                                                                         *)
(* Handlers run to completion, one at a time (spec section 5: a single     *)
(* foreground thread owns the session state), so each handler is one       *)
(* action.  Everything a remote call can answer is an input of the action. *)
(*                                                                         *)
(* Texts are sequences of words and blanks: a word is a maximal run of     *)
(* non-blank characters, SP is one blank.  Python's startswith('/'),       *)
(* split() and split(maxsplit=1) are computed on that representation.      *)
(***************************************************************************)
EXTENDS Integers, Sequences, FiniteSets, TLC

\* ---------------------------------------------------------------- bounds
\* gem.py:52 sets MAX_FILES = 50; the model scales the capacity down so that
\* a full Shelf is reachable.  Every guard compares against MAX_FILES exactly
\* as the code does.
MAX_FILES == 2
\* files in one file-picker result
MaxBatch == 2
\* completed turns kept in the model
MaxTurns == 2
\* completed turns kept when the handlers run on the wider input sets
MaxProbeTurns == 1
\* caches that may exist at the provider at once in the model
MaxCaches == 2
\* handler invocations that may be under way at once in the model
MaxThreads == 2
\* rounds of the polling loop that the model counts
MaxPolls == 3
\* characters (or runs of characters) of a file name given to sanitize_filename
MaxNameLen == 5
\* chat messages given to validate_message have at most this many elements
MaxMessageLen == 3
\* token totals the count call answers with: 0, 25000, ... in this many steps
MaxTokenSteps == 60

\* ------------------------------------------------------------- constants
None == "None"
\* current_cache_name = None (gem.py:62) is modelled as cache name 0
NoCache == 0
SP == " "

\* the local files the user picks and the url the user pastes, each named by
\* the uri the provider gives its upload
Files == {1, 2}
Urls == {3}

ThinkingLevels == {"minimal", "low", "medium", "high"}

VARIABLES
    uploaded_files,        \* gem.py:60   the Shelf, a sequence of entries
    conversation_history,  \* gem.py:61   sequence of Content(role, parts)
    current_cache_name,    \* gem.py:62   held cache reference, NoCache if none
    thinking_level,        \* gem.py:63
    active_preset,         \* gem.py:64
    provider_caches,       \* caches existing at the model provider
    cache_source,          \* the file parts the held reference was created from
    last,                  \* the handler that ran last: name, outcome, events, request
    threads,               \* the handler invocations under way, each on its own thread
    controls               \* gem.py:573-574, 607-608  the sidebar's buttons and loading ring

vars == <<uploaded_files, conversation_history, current_cache_name,
          thinking_level, active_preset, provider_caches, cache_source, last,
          threads, controls>>

\* ---------------------------------------------------------------- helpers
\* types.Part(text=t)
TextPart(t) == [kind |-> "text", text |-> t, file_uri |-> 0, mime_type |-> None]

\* types.Part.from_uri(file_uri=f["uri"], mime_type=f["mime"])
FilePart(f) == [kind |-> "file", text |-> <<>>, file_uri |-> f.uri, mime_type |-> f.mime]

\* [types.Part.from_uri(...) for f in uploaded_files]
FileParts(files) == [i \in 1..Len(files) |-> FilePart(files[i])]

\* types.Content(role=r, parts=p)
Content(r, p) == [role |-> r, parts |-> p]

\* no generation request was issued
NoRequest == [sent |-> FALSE, contents |-> <<>>, cached_content |-> NoCache,
              thinking_level |-> None, tools |-> <<>>]

\* the record of the handler that ran last: its name and outcome, the Shelf
\* events it went through, for send_chat the chat-box text, for a
\* committed turn the generation request and the chunks streamed back, and
\* the temporary local files the handler left on disk
Last(op, outcome, events, request) ==
    [op |-> op, outcome |-> outcome, events |-> events, request |-> request,
     input |-> <<>>, response |-> <<>>, temp |-> {}]

\* the part of the session the Shelf handlers read and write
Session == [files  |-> uploaded_files,
            cache  |-> current_cache_name,
            source |-> cache_source,
            caches |-> provider_caches,
            events |-> <<>>,
            temp   |-> {}]

Log(s, ev) == [s EXCEPT !.events = Append(@, ev)]

\* the event handlers of the page run each on a thread of its own
ThreadIds == 1..MaxThreads

\* a thread that runs no handler
Idle == [op |-> None, pc |-> "idle", value |-> <<>>, request |-> NoRequest,
         original_thinking |-> None, snapshot |-> <<>>, events |-> <<>>,
         file_state |-> None]

NoThreads == [t \in ThreadIds |-> Idle]

\* gem.py:1040-1062  the buttons are enabled and the loading ring is hidden
ControlsReady == [upload_btn_disabled |-> FALSE, url_btn_disabled |-> FALSE,
                  loading_ring_visible |-> FALSE]

\* ----------------------------------------------------- Context Cache Manager
\* the provider names a new cache; the name is not in use at the provider
NewCacheName(caches) ==
    CHOOSE n \in 1..(Cardinality(caches) + 1) : \A c \in caches : c.name # n

\* the reference survives a failed delete
DeleteOldCache_keeps_reference(s) ==
    IF s.cache = NoCache
    THEN {s}
    ELSE { Log([s EXCEPT !.cache = NoCache, !.source = <<>>,
                         !.caches = {c \in @ : c.name # s.cache}], "deleted"),
           Log([s EXCEPT !.caches =
                   {IF c.name = s.cache THEN [c EXCEPT !.orphan = TRUE] ELSE c : c \in @}],
               "delete_failed") }

\* the reference is cleared and no delete is attempted
DeleteOldCache_no_delete(s) ==
    IF s.cache = NoCache
    THEN {s}
    ELSE {Log([s EXCEPT !.cache = NoCache, !.source = <<>>], "deleted")}

\* gem.py:81-87  delete the old cache (errors swallowed), clear the reference:
\* either the provider deleted the cache, or the delete call failed and the
\* cache stays at the provider, no longer referenced (orphan)
DeleteOldCache(s) ==
    IF s.cache = NoCache
    THEN {s}
    ELSE LET cleared == [s EXCEPT !.cache = NoCache, !.source = <<>>]
         IN { Log([cleared EXCEPT !.caches = {c \in @ : c.name # s.cache}], "deleted"),
              Log([cleared EXCEPT !.caches =
                      {IF c.name = s.cache THEN [c EXCEPT !.orphan = TRUE] ELSE c : c \in @}],
                  "delete_failed") }

\* gem.py:94-112  create a cache from all files (errors absorbed)
CreateCache(s) ==
    LET n == NewCacheName(s.caches)
        made == [s EXCEPT !.cache = n,
                          !.source = FileParts(s.files),
                          !.caches = @ \cup {[name |-> n, orphan |-> FALSE]}]
    IN {Log(made, "created"), Log(s, "create_failed")}

\* gem.py:76-112  the possible results of one update_shelf_cache() call
update_shelf_cache(s) ==
    UNION { IF d.files = <<>> THEN {Log(d, "no_files")} ELSE CreateCache(d)
          : d \in DeleteOldCache(Log(s, "rebuild")) }

\* gem.py:224, 239-242  the token-count call answers with a total, or raises
\* and the refresh falls back to the file-count label
MeterOutcomes == {"meter", "meter_fallback"}

\* the fallback puts the Shelf back to empty
update_context_meter_drops_shelf(s) ==
    {Log(s, "meter"), Log([s EXCEPT !.files = <<>>], "meter_fallback")}

\* gem.py:209-242  update_context_meter() reads history and Shelf, writes only
\* the meter widgets, and absorbs every error of the token-count call
update_context_meter(s) == {Log(s, m) : m \in MeterOutcomes}

\* -------------------------------------------------------- Token Budget Tracker
\* gem.py:51
MAX_CONTEXT_TOKENS == 1000000

\* the choice is inclusive at the half
meter_color_half_is_green(percentage) ==
    IF percentage.num <= 50 * percentage.den THEN "GREEN"
    ELSE IF percentage.num < 80 * percentage.den THEN "YELLOW"
    ELSE "RED"

\* gem.py:226  min((total_tokens / MAX_CONTEXT_TOKENS) * 100, 100), kept exact
\* as the fraction num/den
meter_percentage(total_tokens) ==
    [num |-> IF total_tokens * 100 < 100 * MAX_CONTEXT_TOKENS
             THEN total_tokens * 100 ELSE 100 * MAX_CONTEXT_TOKENS,
     den |-> MAX_CONTEXT_TOKENS]

\* gem.py:231-236
meter_color(percentage) ==
    IF percentage.num < 50 * percentage.den THEN "GREEN"
    ELSE IF percentage.num < 80 * percentage.den THEN "YELLOW"
    ELSE "RED"

\* gem.py:224-236  the widgets after a token count of total_tokens:
\* context_meter.value = percentage / 100 as the fraction num/den
meter_display(total_tokens) ==
    LET percentage == meter_percentage(total_tokens)
    IN [value |-> [num |-> percentage.num, den |-> percentage.den * 100],
        color |-> meter_color(percentage),
        label |-> "tokens"]

\* the totals the token-count call answers with: a grid, and the totals next
\* to each threshold
TokenTotals ==
    {k * 25000 : k \in 0..MaxTokenSteps}
    \cup {499999, 500001, 799999, 800001, 999999, 1000001}

\* ------------------------------------------------------------------ Init
Init ==
    /\ uploaded_files = <<>>
    /\ conversation_history = <<>>
    /\ current_cache_name = NoCache
    /\ thinking_level = "high"
    /\ active_preset = None
    /\ provider_caches = {}
    /\ cache_source = <<>>
    /\ last = Last("init", "ok", <<>>, NoRequest)
    /\ threads = NoThreads
    /\ controls = ControlsReady

\* write a Shelf handler's result back to the session; input is what the
\* handler was given (the picked files, the pasted url)
CommitOf(s, op, outcome, input) ==
    /\ Cardinality(s.caches) <= MaxCaches
    /\ uploaded_files' = s.files
    /\ current_cache_name' = s.cache
    /\ cache_source' = s.source
    /\ provider_caches' = s.caches
    /\ last' = [Last(op, outcome, s.events, NoRequest)
                  EXCEPT !.input = input, !.temp = s.temp]
    /\ UNCHANGED <<conversation_history, thinking_level, active_preset, threads, controls>>

Commit(s, op, outcome) == CommitOf(s, op, outcome, <<>>)

\* ------------------------------------------------------------------ Shelf
\* every entry equal to the one at i is removed
Pop_removes_equal_entries(seq, i) == SelectSeq(seq, LAMBDA e : e # seq[i + 1])

\* list.pop(i) with 0-based i
Pop(seq, i) == [k \in 1..(Len(seq) - 1) |-> IF k <= i THEN seq[k] ELSE seq[k + 1]]

\* gem.py:394-402
remove_file_result(s, file_index) ==
    IF 0 <= file_index /\ file_index < Len(s.files)
    THEN UNION {update_context_meter(c) :
            c \in update_shelf_cache(Log([s EXCEPT !.files = Pop(@, file_index)], "mutate"))}
    ELSE {s}

remove_file ==
    \E file_index \in -1..MAX_FILES :
    \E s \in remove_file_result(Session, file_index) :
        CommitOf(s, "remove_file", IF s.events = <<>> THEN "ignored" ELSE "ok",
                 <<file_index>>)

\* ------------------------------------------------------ Remote File Registry
\* what the registry calls of one upload can answer: the upload call raises,
\* the provider reports FAILED after polling, the token count raises, or all
\* three succeed
UploadFailures == {"upload_error", "ingestion_failed", "count_error"}

\* the Shelf entry of local file f (tokens and thumbnail are not modelled:
\* no handler reads them back)
LocalName(f) == IF f = 2 THEN "notes.docx" ELSE "doc.pdf"

\* gem.py:546-552  file 2 is a .docx, uploaded as the pdf it is converted to
FileEntry(f) == [name |-> LocalName(f), uri |-> f, mime |-> "application/pdf"]

\* gem.py:624, the entry of a file downloaded from url u
DownloadEntry(u) == [name |-> "paper.pdf", uri |-> u, mime |-> "application/pdf"]

\* gem.py:663-668, the entry of a scraped page; the name starts with the
\* link marker
ScrapeEntry(u) == [name |-> "LINK http://site/page...", uri |-> u, mime |-> "text/plain"]

Raised(s, err) == [s |-> s, raised |-> err]
Returned(s) == [s |-> s, raised |-> None]

\* a temporary local file is written, and removed by os.unlink
MakeTemp(s, t) == [s EXCEPT !.temp = @ \cup {t}]
Unlink(s, t) == [s EXCEPT !.temp = @ \ {t}]

\* gem.py:491-516  the names that are converted before the upload
NeedsConversion(name) == name = "notes.docx"

\* gem.py:491-544 and file_ops.py:92-140  conversion, upload, unlink of the
\* converted file, polling, token count: the upload call raises with the
\* converted file still on disk; FAILED and the token count raise after the
\* unlink
register_file(s, name) ==
    LET converted == IF NeedsConversion(name) THEN MakeTemp(s, "converted") ELSE s
        uploaded == Unlink(converted, "converted")
    IN {Raised(converted, "upload_error")}
       \cup {Raised(uploaded, err) : err \in UploadFailures \ {"upload_error"}}
       \cup {Returned(uploaded)}

\* gem.py:483-555  process_file_upload: every failure is raised before the
\* append; after the append the cache is rebuilt
process_file_upload(s, entry) ==
    UNION { IF r.raised # None
            THEN {r}
            ELSE {Returned(c) :
                    c \in update_shelf_cache(
                            Log([r.s EXCEPT !.files = Append(@, entry)], "mutate"))}
          : r \in register_file(s, entry.name) }

\* gem.py:578-579  for f in e.files: process_file_upload(f.path, f.name)
RECURSIVE upload_loop(_, _)
upload_loop(s, batch) ==
    IF batch = <<>>
    THEN {Returned(s)}
    ELSE UNION { IF r.raised # None THEN {r} ELSE upload_loop(r.s, Tail(batch))
               : r \in process_file_upload(s, FileEntry(Head(batch))) }

\* only a Shelf that is already full refuses the batch
batch_exceeds_max_ignores_batch(files, batch) == Len(files) >= MAX_FILES

\* gem.py:562, file_ops.py:165  the batch does not fit
batch_exceeds_max(files, batch) == Len(files) + Len(batch) > MAX_FILES

\* the comparison is off by one
shelf_is_full_off_by_one(files) == Len(files) > MAX_FILES

\* gem.py:599, file_ops.py:212  no room for one more
shelf_is_full(files) == Len(files) >= MAX_FILES

\* the file-picker results: up to MaxBatch files, possibly none
Batches == UNION {[1..n -> Files] : n \in 0..MaxBatch}

\* gem.py:557-590
upload_file ==
    \E batch \in Batches :
        IF batch = <<>>
        THEN CommitOf(Session, "upload_file", "ignored", batch)
        ELSE IF batch_exceeds_max(uploaded_files, batch)
        THEN CommitOf(Session, "upload_file", "shelf_full", batch)
        ELSE \E r \in upload_loop(Session, batch) :
                IF r.raised = None
                THEN \E m \in update_context_meter(r.s) :
                        CommitOf(m, "upload_file", "ok", batch)
                ELSE CommitOf(r.s, "upload_file", r.raised, batch)

\* file_ops.py:180-186  the loop appends each processed file; nothing else
\* happens between two files
RECURSIVE handle_file_upload_loop(_, _)
handle_file_upload_loop(s, batch) ==
    IF batch = <<>>
    THEN {Returned(s)}
    ELSE UNION { IF r.raised # None
                 THEN {r}
                 ELSE handle_file_upload_loop(
                         Log([r.s EXCEPT !.files = Append(@, FileEntry(Head(batch)))],
                             "mutate"),
                         Tail(batch))
               : r \in register_file(s, LocalName(Head(batch))) }

\* file_ops.py:158-199
handle_file_upload ==
    \E batch \in Batches :
        IF batch = <<>>
        THEN CommitOf(Session, "handle_file_upload", "ignored", batch)
        ELSE IF batch_exceeds_max(uploaded_files, batch)
        THEN CommitOf(Session, "handle_file_upload", "shelf_full", batch)
        ELSE \E r \in handle_file_upload_loop(Session, batch) :
                IF r.raised = None
                THEN \E c \in update_shelf_cache(r.s) :
                     \E m \in update_context_meter(c) :
                        CommitOf(m, "handle_file_upload", "ok", batch)
                ELSE CommitOf(r.s, "handle_file_upload", r.raised, batch)

\* the urls a user can paste: 3 is a public page, 4 is http://127.0.0.1/admin,
\* 5 has the scheme ftp, 6 is longer than MAX_URL_LENGTH
AnyUrls == Urls \cup {4, 5, 6}

\* urlparse(url) and len(url) of the urls of the model; the hostname is cut
\* after its first label so that startswith can be computed
UrlText(u) ==
    CASE u = 3 -> [scheme |-> "https", hostname |-> <<"site.", "org">>, chars |-> 21]
      [] u = 4 -> [scheme |-> "http", hostname |-> <<"127.", "0.0.1">>, chars |-> 22]
      [] u = 5 -> [scheme |-> "ftp", hostname |-> <<"site.", "org">>, chars |-> 19]
      [] u = 6 -> [scheme |-> "https", hostname |-> <<"site.", "org">>, chars |-> 3000]

\* validation.py:14
MAX_URL_LENGTH == 2048
\* validation.py:16
ALLOWED_URL_SCHEMES == {"http", "https"}
\* validation.py:95  the prefixes of local and private hosts
PrivatePrefixes == {"localhost", "127.", "10.", "172.16.", "192.168.", "169.254."}

\* validation.py:66-105  validate_url on a non-empty url: raised tells the
\* ValidationError, None when the url is returned
validate_url(u) ==
    LET parsed == UrlText(u)
    IN IF parsed.chars > MAX_URL_LENGTH
       THEN [raised |-> "URL exceeds limit", value |-> 0]
       ELSE IF parsed.scheme \notin ALLOWED_URL_SCHEMES
       THEN [raised |-> "URL scheme must be http or https", value |-> 0]
       ELSE IF parsed.hostname # <<>> /\ Head(parsed.hostname) \in PrivatePrefixes
       THEN [raised |-> "Cannot access local or private IP addresses", value |-> 0]
       ELSE [raised |-> None, value |-> u]

\* what fetching the url can answer before the registry is reached
FetchFailures == {"download_error", "scrape_error"}

\* gem.py:611-672  the body of add_url's try block; it opens with the HEAD
\* request of is_direct_file_url (conversions.py:399), whose answer is direct
add_url_body(s0, u, direct) ==
    LET s == Log(s0, "fetch")
        scraped == MakeTemp(s, "scraped")
    IN IF direct
       THEN {Raised(s, "download_error")}
            \cup UNION {IF r.raised = None
                        THEN {Returned(m) :
                                m \in update_context_meter(Unlink(r.s, "downloaded"))}
                        ELSE {r}
                       : r \in process_file_upload(MakeTemp(s, "downloaded"),
                                                   DownloadEntry(u))}
       ELSE {Raised(s, "scrape_error")}
            \cup {Raised(scraped, "upload_error")}
            \cup {Raised(s, err) : err \in UploadFailures \ {"upload_error"}}
            \cup {Returned(m) : m \in update_context_meter(
                      Log([s EXCEPT !.files = Append(@, ScrapeEntry(u))], "mutate"))}

\* gem.py:592-680  the handler on the urls of urls; u = 0 is the empty url
\* field
add_url_on(urls) ==
    \E u \in {0} \cup urls :
        IF u = 0
        THEN CommitOf(Session, "add_url", "ignored", <<>>)
        ELSE IF shelf_is_full(uploaded_files)
        THEN CommitOf(Session, "add_url", "shelf_full", <<u>>)
        ELSE \E direct \in BOOLEAN :
             \E r \in add_url_body(Session, u, direct) :
                CommitOf(r.s, "add_url", IF r.raised = None THEN "ok" ELSE r.raised, <<u>>)

add_url == add_url_on(Urls)

\* the same handler on every kind of url: public, private host, other
\* scheme, over-long
add_url_any_url == add_url_on(AnyUrls)

\* file_ops.py:224-285  the body of handle_url_add's try block; it opens with
\* the HEAD request of is_direct_file_url (conversions.py:399)
handle_url_add_body(s0, u, direct) ==
    LET s == Log(s0, "fetch")
        added == Log([s EXCEPT !.files =
                        Append(@, IF direct THEN DownloadEntry(u) ELSE ScrapeEntry(u))],
                     "mutate")
        temp == IF direct THEN "downloaded" ELSE "scraped"
    IN {Raised(s, IF direct THEN "download_error" ELSE "scrape_error")}
       \cup {Raised(MakeTemp(s, temp), "upload_error")}
       \cup {Raised(IF direct THEN MakeTemp(s, temp) ELSE s, err)
               : err \in UploadFailures \ {"upload_error"}}
       \cup UNION {{Returned(m) : m \in update_context_meter(c)}
                   : c \in update_shelf_cache(added)}

\* file_ops.py:202-293
handle_url_add_on(urls) ==
    \E u \in {0} \cup urls :
        IF u = 0
        THEN CommitOf(Session, "handle_url_add", "ignored", <<>>)
        ELSE IF shelf_is_full(uploaded_files)
        THEN CommitOf(Session, "handle_url_add", "shelf_full", <<u>>)
        ELSE \E direct \in BOOLEAN :
             \E r \in handle_url_add_body(Session, u, direct) :
                CommitOf(r.s, "handle_url_add", IF r.raised = None THEN "ok" ELSE r.raised, <<u>>)

handle_url_add == handle_url_add_on(Urls)

handle_url_add_any_url == handle_url_add_on(AnyUrls)

\* ------------------------------------------------- Shelf handlers on threads
\* the session as thread t sees it, with the events of its handler so far
SessionOf(t) == [Session EXCEPT !.events = threads[t].events]

\* gem.py:573-574, 607-608  the handler shows the ring and disables its button
Busy(op) ==
    IF op = "upload_file"
    THEN [controls EXCEPT !.upload_btn_disabled = TRUE, !.loading_ring_visible = TRUE]
    ELSE [controls EXCEPT !.url_btn_disabled = TRUE, !.loading_ring_visible = TRUE]

\* gem.py:587-590, 677-680  the finally block of upload_file and of add_url;
\* remove_file touches no control
Finally(op) ==
    IF op = "upload_file"
    THEN [controls EXCEPT !.upload_btn_disabled = FALSE, !.loading_ring_visible = FALSE]
    ELSE IF op = "add_url"
    THEN [controls EXCEPT !.url_btn_disabled = FALSE, !.loading_ring_visible = FALSE]
    ELSE controls

\* the thread's handler returns with outcome
EndsWith(t, outcome, events) ==
    /\ threads' = [threads EXCEPT ![t] = Idle]
    /\ controls' = Finally(threads[t].op)
    /\ last' = [Last(threads[t].op, outcome, events, NoRequest)
                  EXCEPT !.input = threads[t].value]

Ends(t, s) == EndsWith(t, "ok", s.events)

\* gem.py:394-399  remove_file on a thread of its own, up to the call of
\* update_shelf_cache: the entry is popped
remove_file_begins ==
    \E t \in ThreadIds : \E file_index \in 0..(Len(uploaded_files) - 1) :
        /\ threads[t] = Idle
        /\ uploaded_files' = Pop(uploaded_files, file_index)
        /\ threads' = [threads EXCEPT ![t] =
               [Idle EXCEPT !.op = "remove_file", !.pc = "rebuild",
                            !.value = <<file_index>>, !.events = <<"mutate">>]]
        /\ UNCHANGED <<conversation_history, current_cache_name, thinking_level,
                       active_preset, provider_caches, cache_source, last, controls>>

\* file_ref.state.name as the provider reports it
FileStates == {"PROCESSING", "ACTIVE", "FAILED"}

\* gem.py:557-575, 592-610, 521-522  upload_file with one picked file, or
\* add_url with the url of a file, on a thread of its own, up to the return
\* of the upload call: the Shelf has room, the ring is shown and the button
\* disabled, and the provider answers with the state of the file or the call
\* raises; upload_btn opens the picker only while it is enabled; ops are the
\* handlers started, states the states the upload call answers with
add_begins_on(ops, states) ==
    \E t \in ThreadIds : \E op \in ops :
    \E f \in (IF op = "upload_file" THEN {1} ELSE Urls) :
        /\ threads[t] = Idle
        /\ op = "upload_file" => ~controls.upload_btn_disabled
        /\ ~shelf_is_full(uploaded_files)
        /\ \/ \E state \in states :
                /\ threads' = [threads EXCEPT ![t] =
                       [Idle EXCEPT !.op = op, !.pc = "polling", !.value = <<f>>,
                                    !.file_state = state]]
                /\ controls' = Busy(op)
                /\ UNCHANGED last
           \/ /\ last' = [Last(op, "upload_error", <<>>, NoRequest) EXCEPT !.input = <<f>>]
              /\ UNCHANGED <<threads, controls>>
        /\ UNCHANGED <<uploaded_files, conversation_history, current_cache_name,
                       thinking_level, active_preset, provider_caches, cache_source>>

\* upload_file, whose file may still be PROCESSING when the upload call
\* returns
upload_file_begins == add_begins_on({"upload_file"}, FileStates)

\* both handlers when the file is processed by the time the upload call
\* returns
add_begins_settled == add_begins_on({"upload_file", "add_url"}, FileStates \ {"PROCESSING"})

\* the loop gives up after MaxPolls queries
poll_answers_gives_up(polled) ==
    IF polled >= MaxPolls THEN {"timeout"} ELSE FileStates \cup {"get_error"}

\* gem.py:527-531  what one more round of the loop can end with: the state
\* client.files.get reports, or the call raises; polled is the number of
\* rounds made so far, which the loop does not look at
poll_answers(polled) == FileStates \cup {"get_error"}

\* gem.py:527-531  one round of the polling loop: the file is PROCESSING, the
\* handler sleeps and asks again; the events of the thread count the rounds
\* made so far, up to MaxPolls
polls_on(t) ==
    \E answer \in poll_answers(Len(threads[t].events)) :
        /\ threads[t].pc = "polling"
        /\ threads[t].file_state = "PROCESSING"
        /\ IF answer \in FileStates
           THEN /\ threads' = [threads EXCEPT
                       ![t].file_state = answer,
                       ![t].events = IF Len(@) < MaxPolls THEN Append(@, "poll") ELSE @]
                /\ UNCHANGED <<last, controls>>
           ELSE EndsWith(t, answer, threads[t].events)
        /\ UNCHANGED <<uploaded_files, conversation_history, current_cache_name,
                       thinking_level, active_preset, provider_caches, cache_source>>

polls == \E t \in ThreadIds : polls_on(t)

\* gem.py:533-552  the loop is left: FAILED raises, the token count raises,
\* or the entry is appended; a raise ends the handler in its except branch
add_appends_on(t) ==
        LET f == threads[t].value[1]
            entry == IF threads[t].op = "upload_file" THEN FileEntry(f)
                     ELSE DownloadEntry(f)
        IN /\ threads[t].pc = "polling"
           /\ threads[t].file_state # "PROCESSING"
           /\ IF threads[t].file_state = "FAILED"
              THEN /\ EndsWith(t, "ingestion_failed", threads[t].events)
                   /\ UNCHANGED uploaded_files
              ELSE \/ /\ uploaded_files' = Append(uploaded_files, entry)
                      /\ threads' = [threads EXCEPT ![t].pc = "rebuild",
                                                    ![t].events = Append(@, "mutate")]
                      /\ UNCHANGED <<last, controls>>
                   \/ /\ EndsWith(t, "count_error", threads[t].events)
                      /\ UNCHANGED uploaded_files
           /\ UNCHANGED <<conversation_history, current_cache_name, thinking_level,
                          active_preset, provider_caches, cache_source>>

add_appends == \E t \in ThreadIds : add_appends_on(t)

\* gem.py:80-99  update_shelf_cache up to the create call: the old cache is
\* deleted and the reference cleared; with an empty Shelf the handler ends,
\* otherwise the Shelf is read into file_parts
rebuild_reads_on(t) ==
    \E d \in DeleteOldCache(Log(SessionOf(t), "rebuild")) :
        /\ threads[t].pc = "rebuild"
        /\ current_cache_name' = d.cache
        /\ cache_source' = d.source
        /\ provider_caches' = d.caches
        /\ IF uploaded_files = <<>>
           THEN \E m \in update_context_meter(Log(d, "no_files")) : Ends(t, m)
           ELSE /\ threads' = [threads EXCEPT ![t].pc = "creating",
                                              ![t].snapshot = uploaded_files,
                                              ![t].events = d.events]
                /\ UNCHANGED <<last, controls>>
        /\ UNCHANGED <<uploaded_files, conversation_history, thinking_level,
                       active_preset>>

rebuild_reads == \E t \in ThreadIds : rebuild_reads_on(t)

\* gem.py:101-112  the create call returns: the reference names the cache
\* made from file_parts, or the call raised; the handler ends
rebuild_creates_on(t) ==
    \E c \in CreateCache([SessionOf(t) EXCEPT !.files = threads[t].snapshot]) :
    \E m \in update_context_meter(c) :
        /\ threads[t].pc = "creating"
        /\ Cardinality(c.caches) <= MaxCaches
        /\ current_cache_name' = c.cache
        /\ cache_source' = c.source
        /\ provider_caches' = c.caches
        /\ Ends(t, m)
        /\ UNCHANGED <<uploaded_files, conversation_history, thinking_level,
                       active_preset>>

rebuild_creates == \E t \in ThreadIds : rebuild_creates_on(t)

\* the rebuilds under way between their read of the Shelf and the return of
\* the create call
Rebuilding == {t \in ThreadIds : threads[t].pc = "creating"}

\* ---------------------------------------------------------- file names
\* a file name is a sequence of characters: the dot, the two separators, the
\* null byte, a letter, and a run of 249 letters written as one element
FileNames ==
    UNION {[1..n -> {".", "/", "\\", "NUL", "a", "a * 249"}] : n \in 0..MaxNameLen}

\* validation.py:190, 192
FILENAME_LIMIT == 255
FILENAME_KEPT == 250
RUN_LENGTH == 249

\* len() of a file name; "a..." is what is left of a run that was cut
NameLen(name) ==
    LET n(c) == IF c = "a * 249" THEN RUN_LENGTH ELSE 1
        sum[k \in 0..Len(name)] == IF k = 0 THEN 0 ELSE sum[k - 1] + n(name[k])
    IN sum[Len(name)]

\* the index of the last c in name, 0 when there is none
LastOf(name, c) ==
    LET at == {k \in 1..Len(name) : name[k] = c}
    IN IF at = {} THEN 0 ELSE CHOOSE k \in at : \A j \in at : j <= k

\* os.path.basename: what follows the last '/'
basename(name) == SubSeq(name, LastOf(name, "/") + 1, Len(name))

\* str.replace('..', ''): the occurrences are found from the left, without
\* overlap, in one pass
RECURSIVE RemoveDotDot(_)
RemoveDotDot(name) ==
    IF Len(name) < 2 THEN name
    ELSE IF name[1] = "." /\ name[2] = "." THEN RemoveDotDot(SubSeq(name, 3, Len(name)))
    ELSE <<name[1]>> \o RemoveDotDot(Tail(name))

\* str.replace(c, '') for a single character c
RemoveChar(name, c) == SelectSeq(name, LAMBDA x : x # c)

\* os.path.splitext on a name without separator: the extension starts at the
\* last dot, unless only dots come before it
splitext(name) ==
    LET dot == LastOf(name, ".")
    IN IF dot > 0 /\ \E k \in 1..(dot - 1) : name[k] # "."
       THEN [name |-> SubSeq(name, 1, dot - 1), ext |-> SubSeq(name, dot, Len(name))]
       ELSE [name |-> name, ext |-> <<>>]

\* name[:n]
RECURSIVE Slice(_, _)
Slice(name, n) ==
    IF name = <<>> \/ n <= 0 THEN <<>>
    ELSE IF Head(name) = "a * 249"
    THEN (IF n >= RUN_LENGTH THEN <<Head(name)>> \o Slice(Tail(name), n - RUN_LENGTH)
          ELSE <<"a...">>)
    ELSE <<Head(name)>> \o Slice(Tail(name), n - 1)

\* validation.py:170-194
sanitize_filename(filename) ==
    LET based == basename(filename)
        replaced == RemoveChar(RemoveChar(RemoveDotDot(based), "/"), "\\")
        cleaned == RemoveChar(replaced, "NUL")
    IN IF NameLen(cleaned) > FILENAME_LIMIT
       THEN Slice(splitext(cleaned).name, FILENAME_KEPT) \o splitext(cleaned).ext
       ELSE cleaned

\* ------------------------------------------------------- Shelf categories
\* a file name is its first character (the link marker, the recording
\* marker, or another character) and its extension; a mime value is the set
\* of the words the rules look for that occur in it
Names == [prefix : {"LINK", "MIC", "a"}, suffix : {".pdf", ".xlsx", ".pptx", ".png"}]
Mimes == SUBSET {"image", "video", "audio", "pdf", "text"}

\* the mime rules are tried before the markers
get_file_category_mime_first(name, mime) ==
    IF "image" \in mime THEN "images"
    ELSE IF "video" \in mime THEN "videos"
    ELSE IF "audio" \in mime THEN "audio"
    ELSE IF name.prefix = "LINK" THEN "links"
    ELSE IF name.prefix = "MIC" THEN "audio"
    ELSE IF "pdf" \in mime \/ name.suffix = ".xlsx" \/ name.suffix = ".pptx"
            \/ "text" \in mime THEN "documents"
    ELSE "other"

\* gem.py:404-419, ui_components.py:9-24
get_file_category(name, mime) ==
    IF name.prefix = "LINK" THEN "links"
    ELSE IF name.prefix = "MIC" THEN "audio"
    ELSE IF "image" \in mime THEN "images"
    ELSE IF "video" \in mime THEN "videos"
    ELSE IF "audio" \in mime THEN "audio"
    ELSE IF "pdf" \in mime \/ name.suffix = ".xlsx" \/ name.suffix = ".pptx"
            \/ "text" \in mime THEN "documents"
    ELSE "other"

\* ------------------------------------------------------ Command Dispatcher
\* gem.py:36-47, presets.py:29-123: the prompt texts, each one opaque word
SYSTEM_PROMPT == <<"SYSTEM_PROMPT">>
REPORT_PROMPT == <<"REPORT_PROMPT">>
SYNTHESIZE_PROMPT == <<"SYNTHESIZE_PROMPT">>
ERROR_CHECK_PROMPT == <<"ERROR_CHECK_PROMPT">>
\* gem.py:802, send_chat_streaming.py:134
DEFAULT_ACK == <<"Understood. I will provide expert analysis ...">>
\* send_chat_streaming.py:131
PRESET_ACK == <<"Understood. I will analyze according to the specified mode.">>
\* gem.py:751
FALLBACK_QUERY == <<"Analyze the uploaded files according to the specified mode.">>

HelpAliases == {"/help", "/commands"}
ReportAliases == {"/report", "/summarize", "/digest"}
SynthesizeAliases == {"/synthesize", "/theory", "/insights"}
ErrorCheckAliases == {"/error-check", "/contradictions", "/verify"}

\* the words of the model whose first character is '/'
SlashWords == HelpAliases \cup ReportAliases \cup SynthesizeAliases
              \cup ErrorCheckAliases \cup {"/Synthesize", "/bogus"}

\* str.lower() on a word
Lower(w) == IF w = "/Synthesize" THEN "/synthesize" ELSE w

\* the first word, not the first character, decides
StartsWithSlash_first_word(text) ==
    SelectSeq(text, LAMBDA x : x # SP) # <<>>
    /\ Head(SelectSeq(text, LAMBDA x : x # SP)) \in SlashWords

\* user_query.startswith('/')
StartsWithSlash(text) == text # <<>> /\ Head(text) \in SlashWords

IsWord(x) == x # SP

\* user_query.split()
Split(text) == SelectSeq(text, IsWord)

\* user_query.split(maxsplit=1): the first word, and the rest of the text
\* from the second word on when there is one
SplitMax1(text) ==
    LET words == {k \in 1..Len(text) : IsWord(text[k])}
        first == CHOOSE k \in words : \A j \in words : k <= j
        later == {k \in words : k > first}
        second == CHOOSE k \in later : \A j \in later : k <= j
    IN IF later = {}
       THEN [len |-> 1, head |-> text[first], rest |-> <<>>]
       ELSE [len |-> 2, head |-> text[first], rest |-> SubSeq(text, second, Len(text))]

\* the command is compared as typed
get_preset_case_sensitive(command) ==
    IF command \in ReportAliases THEN [prompt |-> REPORT_PROMPT, thinking |-> "medium"]
    ELSE IF command \in SynthesizeAliases THEN [prompt |-> SYNTHESIZE_PROMPT, thinking |-> "high"]
    ELSE IF command \in ErrorCheckAliases THEN [prompt |-> ERROR_CHECK_PROMPT, thinking |-> "high"]
    ELSE [prompt |-> <<>>, thinking |-> None]

\* presets.py:7-24  (None, None) is the empty prompt with level None
get_preset(command) ==
    LET c == Lower(command)
    IN IF c \in ReportAliases THEN [prompt |-> REPORT_PROMPT, thinking |-> "medium"]
       ELSE IF c \in SynthesizeAliases THEN [prompt |-> SYNTHESIZE_PROMPT, thinking |-> "high"]
       ELSE IF c \in ErrorCheckAliases THEN [prompt |-> ERROR_CHECK_PROMPT, thinking |-> "high"]
       ELSE [prompt |-> <<>>, thinking |-> None]

\* gem.py:685-763, send_chat_streaming.py:7-85  what the chat-box text
\* dispatches to, with the effective user_query of the turn
dispatch(value) ==
    LET plain == [kind |-> "passthrough", token |-> None, query |-> value,
                  prompt |-> <<>>, thinking |-> None]
    IN IF value = <<>> THEN [plain EXCEPT !.kind = "empty"]
       ELSE IF ~StartsWithSlash(value) THEN plain
       ELSE LET token == Split(value)[1]
                preset == get_preset(token)
                parts == SplitMax1(value)
            IN IF token \in HelpAliases THEN [plain EXCEPT !.kind = "help", !.token = token]
               ELSE IF preset.prompt = <<>>
               THEN [plain EXCEPT !.kind = "unknown", !.token = token]
               ELSE [kind |-> "preset", token |-> token,
                     query |-> IF parts.len > 1 THEN parts.rest ELSE FALLBACK_QUERY,
                     prompt |-> preset.prompt, thinking |-> preset.thinking]

\* ------------------------------------------------------------ validation
\* validation.py:15
MAX_MESSAGE_LENGTH == 50000

\* a message of 60,000 characters, one word
LONG_WORD == "x * 60000"

\* len() of one element of a text: a blank, or a word of the model
Chars(x) ==
    CASE x = SP -> 1
      [] x = "NUL" -> 1
      [] x = LONG_WORD -> 60000
      [] x = "hello" -> 5
      [] x = "/help" -> 5
      [] x = "/bogus" -> 6
      [] x = "/report" -> 7
      [] x = "/commands" -> 9
      [] x = "/Synthesize" -> 11

\* len(text)
RECURSIVE TextLen(_)
TextLen(text) == IF text = <<>> THEN 0 ELSE Chars(Head(text)) + TextLen(Tail(text))

\* str.strip(): the text without its leading and trailing blanks
Strip(text) ==
    LET words == {k \in 1..Len(text) : text[k] # SP}
    IN IF words = {} THEN <<>>
       ELSE SubSeq(text, CHOOSE a \in words : \A k \in words : a <= k,
                         CHOOSE b \in words : \A k \in words : k <= b)

\* the messages given to validate_message, made of blanks, null bytes, a
\* word and a word longer than the limit
Messages == UNION {[1..n -> {SP, "NUL", "hello", LONG_WORD}] : n \in 0..MaxMessageLen}

\* validation.py:108-135  validate_message: raised tells the ValidationError,
\* None when the stripped message, its null bytes removed, is returned
validate_message(message) ==
    IF message = <<>>
    THEN [raised |-> "Message must be a non-empty string", value |-> <<>>]
    ELSE IF Strip(message) = <<>>
    THEN [raised |-> "Message cannot be empty", value |-> <<>>]
    ELSE IF TextLen(Strip(message)) > MAX_MESSAGE_LENGTH
    THEN [raised |-> "Message exceeds limit", value |-> <<>>]
    ELSE [raised |-> None, value |-> RemoveChar(Strip(message), "NUL")]

\* ------------------------------------------------------ Conversation Engine
\* a response part: a function call (name None when absent) and a text
ResponsePart(name, args, text) == [function_call |-> [name |-> name, args |-> args], text |-> text]
SaysText(t) == ResponsePart(None, None, t)
Calls(name, args) == ResponsePart(name, args, <<>>)

NoCall == [name |-> None, args |-> None]

\* charting.py:38-54  generate_chart raises on these argument objects
\* (args stands for the validity of function_call.args)
generate_chart_raises(args) == args # "valid_spec"

\* the file parts go inline whether or not a cache is referenced
configure_request_always_inline(messages, query, level) ==
    [sent |-> TRUE,
     contents |->
        IF uploaded_files # <<>>
        THEN [messages EXCEPT ![Len(messages)] =
                 Content("user", FileParts(uploaded_files) \o <<TextPart(query)>>)]
        ELSE messages,
     cached_content |-> current_cache_name,
     thinking_level |-> level,
     tools |-> <<"generate_chart">>]

\* send_chat_streaming.py:143-173, gem.py:810-846  the request as configured
\* and sent: with a held cache the messages go out as built, otherwise the
\* last message is replaced by the Shelf's file parts plus the query
configure_request(messages, query, level) ==
    [sent |-> TRUE,
     contents |->
        IF current_cache_name # NoCache THEN messages
        ELSE IF uploaded_files # <<>>
        THEN [messages EXCEPT ![Len(messages)] =
                 Content("user", FileParts(uploaded_files) \o <<TextPart(query)>>)]
        ELSE messages,
     cached_content |-> current_cache_name,
     thinking_level |-> level,
     tools |-> <<"generate_chart">>]

\* send_chat_streaming.py:126-140
build_messages_streaming(d) ==
    (IF d.prompt # <<>>
     THEN <<Content("user", <<TextPart(d.prompt)>>), Content("model", <<TextPart(PRESET_ACK)>>)>>
     ELSE <<Content("user", <<TextPart(SYSTEM_PROMPT)>>), Content("model", <<TextPart(DEFAULT_ACK)>>)>>)
    \o conversation_history
    \o <<Content("user", <<TextPart(d.query)>>)>>

\* gem.py:798-808
build_messages(d) ==
    <<Content("user", <<TextPart(SYSTEM_PROMPT)>>), Content("model", <<TextPart(DEFAULT_ACK)>>)>>
    \o conversation_history
    \o <<Content("user", <<TextPart(d.query)>>)>>

\* the first function call stays the pending one
RECURSIVE consume_parts_first_call_wins(_, _)
consume_parts_first_call_wins(acc, parts) ==
    IF parts = <<>> THEN acc
    ELSE LET part == Head(parts)
         IN consume_parts_first_call_wins(
               IF part.function_call.name # None
               THEN (IF acc.call.name = None THEN [acc EXCEPT !.call = part.function_call] ELSE acc)
               ELSE IF part.text # <<>>
               THEN [acc EXCEPT !.text = @ \o part.text]
               ELSE acc,
               Tail(parts))

\* send_chat_streaming.py:179-187, gem.py:855-859  the loop over the parts:
\* acc is [text, call]; a part with a function call only sets the pending
\* call, any other part with a text extends the text
RECURSIVE consume_parts(_, _)
consume_parts(acc, parts) ==
    IF parts = <<>> THEN acc
    ELSE LET part == Head(parts)
         IN consume_parts(
               IF part.function_call.name # None
               THEN [acc EXCEPT !.call = part.function_call]
               ELSE IF part.text # <<>>
               THEN [acc EXCEPT !.text = @ \o part.text]
               ELSE acc,
               Tail(parts))

\* a failed chart leaves the text as streamed
after_chart_silent_failure(acc) ==
    IF acc.call.name = "generate_chart" /\ ~generate_chart_raises(acc.call.args)
    THEN <<"Chart Generated:", SP>> \o acc.text
    ELSE acc.text

\* send_chat_streaming.py:190-196, gem.py:862-871  the Chart Renderer is
\* called once the parts are consumed, when the pending call is generate_chart
chart_events(acc) ==
    IF acc.call.name = "generate_chart"
    THEN <<IF generate_chart_raises(acc.call.args) THEN "chart_failed" ELSE "chart_rendered">>
    ELSE <<>>

\* send_chat_streaming.py:190-228, gem.py:862-904  the text after the chart
\* step
after_chart(acc) ==
    IF acc.call.name = "generate_chart"
    THEN IF generate_chart_raises(acc.call.args)
         THEN <<"Chart generation failed:", SP>> \o acc.text
         ELSE <<"Chart Generated:", SP>> \o acc.text
    ELSE acc.text

\* the parts of all chunks of a stream, in order
RECURSIVE Flatten(_)
Flatten(stream) == IF stream = <<>> THEN <<>> ELSE Head(stream) \o Flatten(Tail(stream))

\* the model entry is stored before the user entry
store_history_model_first(history, query, text) ==
    history \o <<Content("model", <<TextPart(text)>>), Content("user", <<TextPart(query)>>)>>

\* the new turn replaces the turn stored before it
store_history_overwrites(history, query, text) ==
    <<Content("user", <<TextPart(query)>>), Content("model", <<TextPart(text)>>)>>

\* the user entry is the message as it was sent, file parts included
store_history_keeps_sent_parts(history, query, text) ==
    history \o <<Content("user", FileParts(uploaded_files) \o <<TextPart(query)>>),
                 Content("model", <<TextPart(text)>>)>>

\* send_chat_streaming.py:232-234, gem.py:906-908
store_history(history, query, text) ==
    history \o <<Content("user", <<TextPart(query)>>), Content("model", <<TextPart(text)>>)>>

\* what the user types into the chat box
ChatInputs == { <<>>, <<"hello">>, <<"/report">>, <<"/Synthesize", SP, "hello">>,
                <<"/help">>, <<"/bogus">> }


\* every kind of text the chat box can hold
AnyInputs == ChatInputs \cup { <<SP>>, <<SP, SP>>, <<LONG_WORD>>, <<SP, "/help">>,
                               <<"/commands", SP, "hello">>, <<"/report", SP>> }

\* what the provider streams back: chunks of parts
Streams == { << <<SaysText(<<"Hi">>)>>, <<SaysText(<<SP, "there">>)>> >>,
             << <<SaysText(<<"See">>), Calls("generate_chart", "valid_spec")>> >> }

\* responses around the chart tool: a chart call the renderer rejects; a call
\* to another tool and then a chart call; a chart call and then a call to
\* another tool; a rejected chart call and then a good one; text only
ToolStreams ==
    { << <<SaysText(<<"See">>), Calls("generate_chart", "no_data")>> >>,
      << <<Calls("other_tool", "x")>>, <<SaysText(<<"See">>), Calls("generate_chart", "valid_spec")>> >>,
      << <<Calls("generate_chart", "valid_spec"), SaysText(<<"See">>)>>, <<Calls("other_tool", "x")>> >>,
      << <<Calls("generate_chart", "no_data")>>, <<Calls("generate_chart", "valid_spec")>> >>,
      << <<SaysText(<<"Hi">>)>> >> }

ToolInputs == { <<"hello">>, <<"/report">> }

\* how a turn can fail: while the request is built, or in the generation
\* call and the consumption of its stream
TurnFailures == {"build_error", "generation_error"}

\* the user entry is appended before the request is built
abort_turn_keeps_user_entry(history, query) ==
    history \o <<Content("user", <<TextPart(query)>>)>>

\* send_chat_streaming.py:243-246, gem.py:932-937  the except branch: the
\* history is what it was, nothing was appended before the failure
abort_turn(history, query) == history

\* send_chat_streaming.py:49-55, gem.py:727-733  the thinking level in force
\* during the turn
override_thinking(d, level) == IF d.kind = "preset" THEN d.thinking ELSE level

\* send_chat_streaming.py:236-246, gem.py:926-937  the thinking level and the
\* active preset when the turn is over: restored after the history is stored,
\* left as overridden by the except branch
settle_thinking(d, original_thinking, failure) ==
    IF failure = None THEN original_thinking ELSE override_thinking(d, original_thinking)

settle_preset(d, preset, failure) ==
    IF d.kind # "preset" THEN preset
    ELSE IF failure = None THEN None ELSE d.token

\* the turn of send_chat once the dispatch let it through: the override, the
\* request, the stream, the commit
Turn(op, value, d, messages, stream, failure) ==
    LET acc == consume_parts([text |-> <<>>, call |-> NoCall], Flatten(stream))
        request == configure_request(messages, d.query, override_thinking(d, thinking_level))
    IN /\ Len(conversation_history) < 2 * MaxTurns
       /\ UNCHANGED <<threads, controls>>
       /\ conversation_history' =
             IF failure = None
             THEN store_history(conversation_history, d.query, after_chart(acc))
             ELSE abort_turn(conversation_history, d.query)
       /\ thinking_level' = settle_thinking(d, thinking_level, failure)
       /\ active_preset' = settle_preset(d, active_preset, failure)
       /\ IF failure = None
          THEN \E m \in update_context_meter([Session EXCEPT !.events = chart_events(acc)]) :
                  /\ last' = [Last(op, "ok", m.events, request)
                                EXCEPT !.input = value, !.response = stream]
                  /\ uploaded_files' = m.files
                  /\ current_cache_name' = m.cache
                  /\ provider_caches' = m.caches
                  /\ cache_source' = m.source
          ELSE /\ last' = [Last(op, failure, <<>>, NoRequest) EXCEPT !.input = value]
               /\ UNCHANGED <<uploaded_files, current_cache_name, provider_caches,
                              cache_source>>

\* the turns that end before the engine: empty input, help, unknown command
NoTurn(op, value, d) ==
    /\ last' = [Last(op, d.kind, <<>>, NoRequest) EXCEPT !.input = value]
    /\ UNCHANGED <<uploaded_files, conversation_history, current_cache_name,
                   thinking_level, active_preset, provider_caches, cache_source,
                   threads, controls>>

\* gem.py:682-939 and send_chat_streaming.py:4-246  the handler on the
\* chat-box texts of inputs, answered by the provider with one of streams or
\* with a failure; streaming tells which of the two handlers builds the
\* messages, turns caps the turns kept in the model
chat_handler(streaming, inputs, streams, turns) ==
    \E value \in inputs :
        LET d == dispatch(value)
            messages == IF streaming THEN build_messages_streaming(d) ELSE build_messages(d)
        IN IF d.kind \in {"empty", "help", "unknown"}
           THEN NoTurn("send_chat", value, d)
           ELSE /\ Len(conversation_history) < 2 * turns
                /\ \/ \E stream \in streams :
                         Turn("send_chat", value, d, messages, stream, None)
                   \/ \E failure \in TurnFailures :
                         Turn("send_chat", value, d, messages, <<>>, failure)

\* the turns under way: the threads inside send_chat
InFlight == {t \in ThreadIds : threads[t].op = "send_chat"}

\* gem.py:682-846, send_chat_streaming.py:4-173  send_chat on a thread of its
\* own, up to the generation call: the dispatch, the override, the messages
\* and the request; the handler takes no lock and disables no control, so it
\* starts whenever the text is submitted
send_chat_begins ==
    \E t \in ThreadIds : \E value \in ChatInputs : \E streaming \in BOOLEAN :
        LET d == dispatch(value)
            messages == IF streaming THEN build_messages_streaming(d) ELSE build_messages(d)
            request == configure_request(messages, d.query,
                                         override_thinking(d, thinking_level))
        IN /\ threads[t] = Idle
           /\ d.kind \notin {"empty", "help", "unknown"}
           /\ Len(conversation_history) + 2 * Cardinality(InFlight) < 2 * MaxTurns
           /\ threads' = [threads EXCEPT ![t] =
                  [Idle EXCEPT !.op = "send_chat", !.pc = "generating",
                               !.value = value, !.request = request,
                               !.original_thinking = thinking_level]]
           /\ thinking_level' = override_thinking(d, thinking_level)
           /\ active_preset' = IF d.kind = "preset" THEN d.token ELSE active_preset
           /\ UNCHANGED <<uploaded_files, conversation_history, current_cache_name,
                          provider_caches, cache_source, last, controls>>

\* gem.py:848-937, send_chat_streaming.py:175-246  the rest of the handler on
\* its thread: the response is consumed and the turn committed, or the
\* except branch is taken
send_chat_ends ==
    \E t \in InFlight :
        LET d == dispatch(threads[t].value)
        IN /\ threads' = [threads EXCEPT ![t] = Idle]
           /\ UNCHANGED <<uploaded_files, current_cache_name, provider_caches,
                          cache_source, controls>>
           /\ \/ \E stream \in Streams :
                   LET acc == consume_parts([text |-> <<>>, call |-> NoCall],
                                            Flatten(stream))
                   IN /\ conversation_history' =
                            store_history(conversation_history, d.query, after_chart(acc))
                      /\ thinking_level' = IF d.kind = "preset"
                                           THEN threads[t].original_thinking
                                           ELSE thinking_level
                      /\ active_preset' = IF d.kind = "preset" THEN None
                                          ELSE active_preset
                      /\ \E m \in update_context_meter(
                                     [Session EXCEPT !.events = chart_events(acc)]) :
                            last' = [Last("send_chat", "ok", m.events, threads[t].request)
                                       EXCEPT !.input = threads[t].value,
                                              !.response = stream]
              \/ /\ last' = [Last("send_chat", "generation_error", <<>>, NoRequest)
                               EXCEPT !.input = threads[t].value]
                 /\ UNCHANGED <<conversation_history, thinking_level, active_preset>>

\* gem.py:682-939
send_chat == chat_handler(FALSE, ChatInputs, Streams, MaxTurns)

\* send_chat_streaming.py:4-246
send_chat_streaming == chat_handler(TRUE, ChatInputs, Streams, MaxTurns)

\* the same two handlers on every kind of chat-box text: blank, over-long,
\* led by a blank, help, unknown and preset commands
send_chat_any_input == chat_handler(FALSE, AnyInputs, Streams, MaxProbeTurns)

send_chat_streaming_any_input == chat_handler(TRUE, AnyInputs, Streams, MaxProbeTurns)

\* the same two handlers answered with the responses around the chart tool
send_chat_tools == chat_handler(FALSE, ToolInputs, ToolStreams, MaxProbeTurns)

send_chat_streaming_tools == chat_handler(TRUE, ToolInputs, ToolStreams, MaxProbeTurns)

\* gem.py:184-189
change_thinking_level ==
    \E level \in ThinkingLevels :
        /\ thinking_level' = level
        /\ last' = Last("change_thinking_level", "ok", <<>>, NoRequest)
        /\ UNCHANGED <<uploaded_files, conversation_history, current_cache_name,
                       active_preset, provider_caches, cache_source, threads, controls>>

\* the provider drops a cache when its ttl of 3600s (gem.py:103) has passed
cache_expires ==
    \E c \in provider_caches :
        /\ provider_caches' = provider_caches \ {c}
        /\ last' = Last("cache_expires", "ok", <<>>, NoRequest)
        /\ UNCHANGED <<uploaded_files, conversation_history, current_cache_name,
                       thinking_level, active_preset, cache_source, threads, controls>>

\* the Shelf and the cache manager: every handler that mutates the Shelf, in
\* gem.py and in file_ops.py, and the provider's expiry
NextShelf ==
    \/ upload_file
    \/ handle_file_upload
    \/ add_url
    \/ handle_url_add
    \/ remove_file
    \/ cache_expires

SpecShelf == Init /\ [][NextShelf]_vars

\* the conversation engine over a Shelf filled by upload and remove
NextChat ==
    \/ send_chat
    \/ send_chat_streaming
    \/ change_thinking_level
    \/ upload_file
    \/ remove_file

SpecChat == Init /\ [][NextChat]_vars

\* the two chat handlers on every kind of chat-box text
NextInput ==
    \/ send_chat_any_input
    \/ send_chat_streaming_any_input
    \/ change_thinking_level

SpecInput == Init /\ [][NextInput]_vars

\* the two chat handlers answered with the responses around the chart tool
NextTools ==
    \/ send_chat_tools
    \/ send_chat_streaming_tools
    \/ change_thinking_level

SpecTools == Init /\ [][NextTools]_vars

\* the conversation engine over caches that expire at the provider
NextExpiry ==
    \/ upload_file
    \/ send_chat
    \/ send_chat_streaming
    \/ cache_expires

SpecExpiry == Init /\ [][NextExpiry]_vars

\* a file name is given to sanitize_filename
InitSanitize ==
    /\ uploaded_files = <<>>
    /\ conversation_history = <<>>
    /\ current_cache_name = NoCache
    /\ thinking_level = "high"
    /\ active_preset = None
    /\ provider_caches = {}
    /\ cache_source = <<>>
    /\ threads = NoThreads
    /\ controls = ControlsReady
    /\ \E filename \in FileNames :
          last = [Last("filename", "ok", <<>>, NoRequest) EXCEPT !.input = <<filename>>]

\* validation.py:170-194  the name is sanitized
sanitize ==
    /\ last.op = "filename"
    /\ last' = [Last("sanitize_filename", "ok", <<>>, NoRequest)
                  EXCEPT !.input = last.input,
                         !.response = <<sanitize_filename(last.input[1])>>]
    /\ UNCHANGED <<uploaded_files, conversation_history, current_cache_name,
                   thinking_level, active_preset, provider_caches, cache_source,
                   threads, controls>>

NextSanitize == sanitize

SpecSanitize == InitSanitize /\ [][NextSanitize]_vars

\* a chat message is given to validate_message
InitMessage ==
    /\ uploaded_files = <<>>
    /\ conversation_history = <<>>
    /\ current_cache_name = NoCache
    /\ thinking_level = "high"
    /\ active_preset = None
    /\ provider_caches = {}
    /\ cache_source = <<>>
    /\ threads = NoThreads
    /\ controls = ControlsReady
    /\ \E message \in Messages :
          last = [Last("message", "ok", <<>>, NoRequest) EXCEPT !.input = message]

\* validation.py:108-135  the message is validated: the outcome is the
\* ValidationError raised or "ok", the response the returned message
validate ==
    /\ last.op = "message"
    /\ LET result == validate_message(last.input)
       IN last' = [Last("validate_message",
                        IF result.raised = None THEN "ok" ELSE result.raised,
                        <<>>, NoRequest)
                     EXCEPT !.input = last.input,
                            !.response = result.value]
    /\ UNCHANGED <<uploaded_files, conversation_history, current_cache_name,
                   thinking_level, active_preset, provider_caches, cache_source,
                   threads, controls>>

NextMessage == validate

SpecMessage == InitMessage /\ [][NextMessage]_vars

\* the Shelf view asks for the category of an entry
InitCategory ==
    /\ uploaded_files = <<>>
    /\ conversation_history = <<>>
    /\ current_cache_name = NoCache
    /\ thinking_level = "high"
    /\ active_preset = None
    /\ provider_caches = {}
    /\ cache_source = <<>>
    /\ threads = NoThreads
    /\ controls = ControlsReady
    /\ \E name \in Names : \E mime \in Mimes :
          last = [Last("shelf_entry", "ok", <<>>, NoRequest)
                    EXCEPT !.input = <<[name |-> name, mime |-> mime]>>]

\* gem.py:404-419  the category of the entry is computed
categorize ==
    /\ last.op = "shelf_entry"
    /\ last' = [Last("get_file_category", "ok", <<>>, NoRequest)
                  EXCEPT !.input = last.input,
                         !.response = <<get_file_category(last.input[1].name,
                                                          last.input[1].mime)>>]
    /\ UNCHANGED <<uploaded_files, conversation_history, current_cache_name,
                   thinking_level, active_preset, provider_caches, cache_source,
                   threads, controls>>

NextCategory == categorize

SpecCategory == InitCategory /\ [][NextCategory]_vars

\* the handlers that mutate the Shelf, on the threads of the page
NextRebuild ==
    \/ remove_file_begins
    \/ add_begins_settled
    \/ add_appends
    \/ rebuild_reads
    \/ rebuild_creates

SpecRebuild == Init /\ [][NextRebuild]_vars

\* upload_file with its polling loop, on the threads of the page
NextPoll ==
    \/ upload_file_begins
    \/ polls
    \/ add_appends
    \/ rebuild_reads
    \/ rebuild_creates

SpecPoll == Init /\ [][NextPoll]_vars

\* every handler under way takes its next step: each round of the loop and
\* each provider call returns; a round that changes nothing is no step, so the
\* provider does not answer PROCESSING forever
FairPoll ==
    \A t \in ThreadIds :
        /\ WF_vars(polls_on(t))
        /\ WF_vars(add_appends_on(t))
        /\ WF_vars(rebuild_reads_on(t))
        /\ WF_vars(rebuild_creates_on(t))

SpecPollFair == SpecPoll /\ FairPoll

\* send_chat on the threads of the page
NextTurns ==
    \/ send_chat_begins
    \/ send_chat_ends

SpecTurns == Init /\ [][NextTurns]_vars

\* the budget refresh on its own: the count call has answered with a total
InitMeter ==
    /\ uploaded_files = <<>>
    /\ conversation_history = <<>>
    /\ current_cache_name = NoCache
    /\ thinking_level = "high"
    /\ active_preset = None
    /\ provider_caches = {}
    /\ cache_source = <<>>
    /\ threads = NoThreads
    /\ controls = ControlsReady
    /\ \E total \in TokenTotals :
          last = [Last("count_tokens", "ok", <<>>, NoRequest) EXCEPT !.input = <<total>>]

\* gem.py:225-238  the refresh writes the widgets from the total
show_context_meter ==
    /\ last.op = "count_tokens"
    /\ last' = [Last("update_context_meter", "ok", <<"meter">>, NoRequest)
                  EXCEPT !.input = last.input,
                         !.response = <<meter_display(last.input[1])>>]
    /\ UNCHANGED <<uploaded_files, conversation_history, current_cache_name,
                   thinking_level, active_preset, provider_caches, cache_source,
                   threads, controls>>

NextMeter == show_context_meter

SpecMeter == InitMeter /\ [][NextMeter]_vars

\* the two url handlers on every kind of url
NextUrl ==
    \/ add_url_any_url
    \/ handle_url_add_any_url
    \/ remove_file

SpecUrl == Init /\ [][NextUrl]_vars

Next ==
    \/ cache_expires
    \/ upload_file
    \/ handle_file_upload
    \/ add_url
    \/ handle_url_add
    \/ remove_file
    \/ send_chat
    \/ send_chat_streaming
    \/ change_thinking_level
    \/ send_chat_any_input
    \/ send_chat_streaming_any_input
    \/ add_url_any_url
    \/ handle_url_add_any_url
    \/ send_chat_tools
    \/ send_chat_streaming_tools

Spec == Init /\ [][Next]_vars

\* =================================================================== claims
\* the index of the last event ev in events, 0 when there is none
LastIndex(events, ev) ==
    IF \E i \in 1..Len(events) : events[i] = ev
    THEN CHOOSE i \in 1..Len(events) :
            events[i] = ev /\ \A j \in (i + 1)..Len(events) : events[j] # ev
    ELSE 0

\* every mutation in events is directly followed by a rebuild
EachMutationRebuilt(events) ==
    \A i \in 1..Len(events) :
        events[i] = "mutate" => i < Len(events) /\ events[i + 1] = "rebuild"

\* the held reference, if any, was created from the Shelf as it is now
CacheMatchesShelf ==
    current_cache_name = NoCache \/ cache_source = FileParts(uploaded_files)

\* C1: every Shelf mutation is directly followed by a cache rebuild attempt,
\* and between handlers the held cache reference is absent or was created
\* from exactly the Shelf's current ordered contents.
C1_MutationRebuildsCache ==
    EachMutationRebuilt(last.events) /\ CacheMatchesShelf

\* the rebuild that ended the Shelf work of the last handler: the events from
\* its "rebuild" on, when no mutation came after it
FinalRebuild(events) ==
    LET i == LastIndex(events, "rebuild")
    IN IF i > 0 /\ LastIndex(events, "mutate") < i
       THEN SubSeq(events, i, Len(events))
       ELSE <<>>

Has(events, ev) == \E i \in 1..Len(events) : events[i] = ev

\* C6: when update_shelf_cache has returned, the held reference agrees with
\* the outcome of the call: absent when the Shelf is empty or the creation
\* failed, otherwise the name of the cache just created from the whole Shelf
\* in order; and a reference whose deletion failed is no longer held.
C6_RebuildOutcome ==
    LET ev == FinalRebuild(last.events)
    IN ev # <<>> =>
        /\ Has(ev, "no_files") <=> uploaded_files = <<>>
        /\ Has(ev, "no_files") \/ Has(ev, "create_failed") \/ Has(ev, "created")
        /\ (Has(ev, "no_files") \/ Has(ev, "create_failed")) => current_cache_name = NoCache
        /\ Has(ev, "created") =>
              /\ current_cache_name # NoCache
              /\ cache_source = FileParts(uploaded_files)
              /\ [name |-> current_cache_name, orphan |-> FALSE] \in provider_caches
        /\ \A c \in provider_caches : c.orphan => c.name # current_cache_name

\* a rebuild failed to delete the old cache, then created the new one
C6_Witness ==
    LET ev == FinalRebuild(last.events)
    IN Has(ev, "delete_failed") /\ Has(ev, "created") /\ Len(uploaded_files) = 2

\* C7 as stated: at most one cache created by the session exists at the
\* provider at any time.
C7_AtMostOneProviderCache == Cardinality(provider_caches) <= 1

\* C7 as amended: the session references at most one cache, and every other
\* cache it created that still exists at the provider is one whose deletion
\* was attempted and failed.
C7_UnreferencedCachesAreOrphans ==
    \A c \in provider_caches : c.name = current_cache_name \/ c.orphan

\* two caches exist: the held one and one whose deletion failed
C7_Witness ==
    /\ Cardinality(provider_caches) = 2
    /\ \E c \in provider_caches : c.orphan
    /\ \E c \in provider_caches : c.name = current_cache_name /\ ~c.orphan

TurnEnded(l) == l.op = "send_chat" /\ l.outcome \in {"ok"} \cup TurnFailures
TurnFailed(l) == l.op = "send_chat" /\ l.outcome \in TurnFailures
TurnCommitted(l) == l.op = "send_chat" /\ l.outcome = "ok"

\* the chat-box text begins with a preset command
PresetTyped(value) ==
    value # <<>> /\ Lower(Head(value)) \in ReportAliases \cup SynthesizeAliases \cup ErrorCheckAliases

\* the user's own words after the command, the stock request when there are
\* none; the whole text when no command was typed
EffectiveQuery(value) ==
    IF ~PresetTyped(value) THEN value
    ELSE LET after == {k \in 2..Len(value) : value[k] # SP}
         IN IF after = {} THEN FALLBACK_QUERY
            ELSE SubSeq(value, CHOOSE k \in after : \A j \in after : k <= j, Len(value))

\* the prompt the turn's mode asks for
ExpectedPrompt(value) ==
    IF ~PresetTyped(value) THEN SYSTEM_PROMPT
    ELSE LET c == Lower(Head(value))
         IN IF c \in ReportAliases THEN REPORT_PROMPT
            ELSE IF c \in SynthesizeAliases THEN SYNTHESIZE_PROMPT
            ELSE ERROR_CHECK_PROMPT

\* the text of the text parts of a stream, in order
RECURSIVE StreamedText(_)
StreamedText(parts) ==
    IF parts = <<>> THEN <<>>
    ELSE (IF Head(parts).function_call.name = None THEN Head(parts).text ELSE <<>>)
         \o StreamedText(Tail(parts))

\* the text a committed turn shows: the streamed text, headed by the chart
\* note when the response asked for a chart
FinalText(stream) ==
    LET parts == Flatten(stream)
        calls == {i \in 1..Len(parts) : parts[i].function_call.name # None}
        final == CHOOSE i \in calls : \A j \in calls : j <= i
    IN IF calls # {} /\ parts[final].function_call.name = "generate_chart"
       THEN (IF parts[final].function_call.args = "valid_spec"
             THEN <<"Chart Generated:", SP>> ELSE <<"Chart generation failed:", SP>>)
            \o StreamedText(parts)
       ELSE StreamedText(parts)

PreambleWords ==
    {SYSTEM_PROMPT[1], REPORT_PROMPT[1], SYNTHESIZE_PROMPT[1], ERROR_CHECK_PROMPT[1],
     DEFAULT_ACK[1], PRESET_ACK[1]}

HoldsPreamble(entry) ==
    \E i \in 1..Len(entry.parts) :
        \E k \in 1..Len(entry.parts[i].text) : entry.parts[i].text[k] \in PreambleWords

\* C2: a turn that fails while the request is built or while the model call
\* is consumed leaves the conversation history, the Shelf and the cache
\* reference exactly as they were; a turn appends both entries or neither.
C2_FailedTurnLeavesSession ==
    [][ /\ TurnFailed(last') =>
              /\ conversation_history' = conversation_history
              /\ uploaded_files' = uploaded_files
              /\ current_cache_name' = current_cache_name
        /\ TurnEnded(last') =>
              Len(conversation_history') - Len(conversation_history) \in {0, 2} ]_vars

\* a turn failed with a turn already stored, files on the Shelf and a cache
C2_Witness ==
    /\ TurnFailed(last)
    /\ Len(conversation_history) = 2
    /\ uploaded_files # <<>>
    /\ current_cache_name # NoCache

\* C3: a successful turn appends exactly two entries, first the user entry
\* holding the effective query, then the model entry holding the final
\* accumulated text; no stored entry holds a preset prompt or preamble text.
C3_SuccessfulTurnAppendsPair ==
    [][ TurnCommitted(last') =>
          /\ conversation_history' =
                conversation_history
                \o << [role |-> "user", parts |-> <<TextPart(EffectiveQuery(last'.input))>>],
                      [role |-> "model", parts |-> <<TextPart(FinalText(last'.response))>>] >>
          /\ \A i \in 1..Len(conversation_history') :
                ~HoldsPreamble(conversation_history'[i]) ]_vars

\* a preset turn with words after the command was committed as second turn
C3_Witness ==
    /\ TurnCommitted(last)
    /\ PresetTyped(last.input)
    /\ Len(last.input) > 1
    /\ Len(conversation_history) = 4

\* C4: when a turn has ended, successfully or not, the thinking level is the
\* one set before the turn, and after a preset turn no preset is active.
C4_OverrideLastsOneTurn ==
    [][ TurnEnded(last') =>
          /\ thinking_level' = thinking_level
          /\ PresetTyped(last'.input) => active_preset' = None ]_vars

Alternates(history) ==
    /\ Len(history) % 2 = 0
    /\ \A i \in 1..Len(history) :
          history[i].role = IF i % 2 = 1 THEN "user" ELSE "model"

IsPrefix(a, b) == Len(a) <= Len(b) /\ SubSeq(b, 1, Len(a)) = a

\* C5: the conversation history alternates user, model, user, model from
\* its first entry, so its length is even, and every step keeps the entries
\* already stored: the history before a step is a prefix of the one after.
C5_HistoryAlternatesAndGrows ==
    /\ Alternates(conversation_history)
    /\ [][ /\ Alternates(conversation_history')
           /\ IsPrefix(conversation_history, conversation_history') ]_vars

\* a plain turn was stored after an earlier, different turn
C5_Witness ==
    /\ TurnCommitted(last)
    /\ ~PresetTyped(last.input)
    /\ Len(conversation_history) = 4
    /\ conversation_history[1] # conversation_history[3]

IsInline(message) ==
    \E i \in 1..Len(message.parts) : message.parts[i].kind = "file"

\* C8: a request built while a cache reference is held names that cache and
\* has no file part in any message; built with no reference and files on the
\* Shelf, its last message is the Shelf's file references in Shelf order and
\* then the user text, and no cache is named; built with neither, it has no
\* cache name and no file part.
C8_CacheOrInlineFiles ==
    TurnCommitted(last) =>
        LET r == last.request
            n == Len(r.contents)
        IN /\ r.sent
           /\ current_cache_name # NoCache =>
                 /\ r.cached_content = current_cache_name
                 /\ \A i \in 1..n : ~IsInline(r.contents[i])
           /\ current_cache_name = NoCache =>
                 /\ r.cached_content = NoCache
                 /\ \A i \in 1..(n - 1) : ~IsInline(r.contents[i])
                 /\ uploaded_files = <<>> => ~IsInline(r.contents[n])
                 /\ uploaded_files # <<>> =>
                       /\ r.contents[n].role = "user"
                       /\ r.contents[n].parts =
                             [i \in 1..(Len(uploaded_files) + 1) |->
                                 IF i <= Len(uploaded_files)
                                 THEN [kind |-> "file", text |-> <<>>,
                                       file_uri |-> uploaded_files[i].uri,
                                       mime_type |-> uploaded_files[i].mime]
                                 ELSE TextPart(EffectiveQuery(last.input))]

\* a second turn went out with no cache held and two different files inline
C8_Witness ==
    /\ TurnCommitted(last)
    /\ current_cache_name = NoCache
    /\ Len(uploaded_files) = 2
    /\ uploaded_files[1] # uploaded_files[2]
    /\ Len(conversation_history) = 4

\* C9: the messages of a turn are the preamble pair, the history stored
\* before the turn, and the current user turn; the preamble's first message
\* is the preset's prompt on a preset turn, the system prompt otherwise.
C9_MessagesArePreambleHistoryTurn ==
    TurnCommitted(last) =>
        LET msgs == last.request.contents
            n == Len(msgs)
            prior == SubSeq(conversation_history, 1, Len(conversation_history) - 2)
            current == msgs[n].parts[Len(msgs[n].parts)]
        IN /\ n = Len(prior) + 3
           /\ msgs[1] = [role |-> "user", parts |-> <<TextPart(ExpectedPrompt(last.input))>>]
           /\ msgs[2].role = "model"
           /\ SubSeq(msgs, 3, n - 1) = prior
           /\ msgs[n].role = "user"
           /\ current = TextPart(EffectiveQuery(last.input))
\* ------------------------------------------------------ add and input claims
FileAddOps == {"upload_file", "handle_file_upload"}
UrlAddOps == {"add_url", "handle_url_add"}

\* the add the handler was asked for does not fit on the Shelf as it is
AddBeyondMax(l) ==
    \/ l.op \in FileAddOps /\ Len(uploaded_files) + Len(l.input) > MAX_FILES
    \/ l.op \in UrlAddOps /\ l.input # <<>> /\ Len(uploaded_files) >= MAX_FILES

\* C11: an add that does not fit (Shelf size plus batch size above the
\* maximum, or a url add on a full Shelf) leaves the Shelf, the cache
\* reference and the provider's caches as they were, and the handler starts
\* no fetch, no upload and no rebuild.
C11_AddBeyondMaxChangesNothing ==
    [][ AddBeyondMax(last') =>
          /\ uploaded_files' = uploaded_files
          /\ current_cache_name' = current_cache_name
          /\ provider_caches' = provider_caches
          /\ last'.events = <<>> ]_vars

\* a batch of two was refused by a Shelf that still had room for one
C11_Witness ==
    /\ last.op \in FileAddOps
    /\ last.outcome = "shelf_full"
    /\ Len(last.input) = 2
    /\ Len(uploaded_files) = MAX_FILES - 1
    /\ current_cache_name # NoCache
\* C12: a chat message that validate_message rejects (empty, blank only, or
\* longer than MAX_MESSAGE_LENGTH characters) ends in the handler: no
\* generation request is issued for it and the history is as before.
C12_RejectedMessageStopsAtBoundary ==
    [][ last'.op = "send_chat" /\ validate_message(last'.input).raised # None =>
          /\ last'.outcome \notin {"ok"} \cup TurnFailures
          /\ ~last'.request.sent
          /\ conversation_history' = conversation_history ]_vars
\* C13: a url that validate_url rejects (scheme other than http and https,
\* over-long, local or private host) is refused before any network request:
\* the handler issues no HEAD, download or scrape request for it and the
\* Shelf is as before.
C13_RejectedUrlIsNeverFetched ==
    [][ /\ last'.op \in UrlAddOps
        /\ last'.input # <<>>
        /\ validate_url(last'.input[1]).raised # None
        => /\ ~Has(last'.events, "fetch")
           /\ uploaded_files' = uploaded_files ]_vars
\* the text begins with the command marker
IsCommandText(value) == value # <<>> /\ Head(value) \in SlashWords

\* the text is a help command or a command no preset answers to
EndsWithoutModel(value) ==
    IsCommandText(value) /\ (Head(value) \in {"/help", "/commands"} \/ ~PresetTyped(value))

ExpectedDepth(value) ==
    IF Lower(Head(value)) \in {"/report", "/summarize", "/digest"} THEN "medium" ELSE "high"

\* C15: a text whose first token is a preset alias in any letter case starts
\* a turn whose query is the text after the command token, or the canned
\* fallback when nothing follows, and whose generation request carries the
\* preset's reasoning depth, not the user's setting.
C15_PresetQueryAndDepth ==
    last.op = "send_chat" /\ PresetTyped(last.input) =>
        /\ TurnEnded(last)
        /\ TurnCommitted(last) =>
              /\ last.request.thinking_level = ExpectedDepth(last.input)
              /\ last.request.contents[Len(last.request.contents)] =
                    [role |-> "user", parts |-> <<TextPart(EffectiveQuery(last.input))>>]
              /\ conversation_history[Len(conversation_history) - 1] =
                    [role |-> "user", parts |-> <<TextPart(EffectiveQuery(last.input))>>]

\* /Synthesize hello went out at depth high while the user's setting was low
C15_Witness ==
    /\ TurnCommitted(last)
    /\ last.input = <<"/Synthesize", SP, "hello">>
    /\ last.request.thinking_level = "high"
    /\ thinking_level = "low"
\* ------------------------------------------------------------ chart claims
\* the function calls of a response, by position, and the last of them
CallsAt(parts) == {i \in 1..Len(parts) : parts[i].function_call.name # None}

PendingCall(parts) ==
    IF CallsAt(parts) = {} THEN [name |-> None, args |-> None]
    ELSE parts[CHOOSE i \in CallsAt(parts) : \A j \in CallsAt(parts) : j <= i].function_call

\* the response asks for a chart the renderer cannot draw
ChartFails(response) ==
    LET call == PendingCall(Flatten(response))
    IN call.name = "generate_chart" /\ call.args # "valid_spec"

ChartNote == <<"Chart generation failed:", SP>>

ChartEvents(events) == SelectSeq(events, LAMBDA ev : ev \in {"chart_rendered", "chart_failed"})

\* C17: of the function calls of a response the last one is the pending
\* call; the Chart Renderer is called at most once in a turn, on the pending
\* call, and only when that call is named generate_chart.
C17_LastFunctionCallWins ==
    TurnCommitted(last) =>
        LET pending == PendingCall(Flatten(last.response))
        IN /\ Len(ChartEvents(last.events)) <= 1
           /\ ChartEvents(last.events) # <<>> <=> pending.name = "generate_chart"
           /\ ChartEvents(last.events) # <<>> =>
                 (ChartEvents(last.events)[1] = "chart_rendered" <=> pending.args = "valid_spec")
           /\ conversation_history[Len(conversation_history)].parts =
                 <<TextPart(FinalText(last.response))>>

\* a response with a rejected chart call and then a good one was rendered
C17_Witness ==
    /\ TurnCommitted(last)
    /\ Cardinality(CallsAt(Flatten(last.response))) = 2
    /\ Flatten(last.response)[1].function_call.args = "no_data"
    /\ ChartEvents(last.events) = <<"chart_rendered">>
\* ------------------------------------------------------------ budget claims
\* C18: for a token total used against max = MAX_CONTEXT_TOKENS the band is
\* nominal (green) when used/max < 0.50, warning (yellow) when
\* 0.50 <= used/max < 0.80 and critical (red) otherwise, also above max; the
\* meter shows the fraction min(used/max, 1).
C18_BudgetBands ==
    last.op = "update_context_meter" =>
        LET used == last.input[1]
            shown == last.response[1]
        IN /\ shown.color =
                 IF 2 * used < MAX_CONTEXT_TOKENS THEN "GREEN"
                 ELSE IF 5 * used < 4 * MAX_CONTEXT_TOKENS THEN "YELLOW"
                 ELSE "RED"
           /\ IF used >= MAX_CONTEXT_TOKENS
              THEN shown.value.num = shown.value.den
              ELSE /\ shown.value.num = used * (shown.value.den \div MAX_CONTEXT_TOKENS)
                   /\ shown.value.den % MAX_CONTEXT_TOKENS = 0

\* a total above the maximum shows a full, red meter
C18_Witness ==
    /\ last.op = "update_context_meter"
    /\ last.input[1] > MAX_CONTEXT_TOKENS
    /\ last.response[1].color = "RED"
    /\ last.response[1].value.num = last.response[1].value.den
\* the Shelf entries of the picked files, in the order picked
BatchEntries(batch) == [i \in 1..Len(batch) |-> FileEntry(batch[i])]

\* C19: when the token-count call of a budget refresh fails, the refresh shows
\* the file count and does not raise: the handler that triggered it ends as
\* it would have (the turn keeps its two new history entries, the removed file
\* stays removed, the uploaded files stay on the Shelf), and the refresh itself
\* changes nothing of the Shelf, the cache or the history.
C19_CountFailureFallsBack ==
    [][Has(last'.events, "meter_fallback") =>
        /\ last'.outcome = "ok"
        /\ last'.events[Len(last'.events)] = "meter_fallback"
        /\ ~Has(last'.events, "meter")
        /\ last'.op = "send_chat" =>
              /\ Len(conversation_history') = Len(conversation_history) + 2
              /\ IsPrefix(conversation_history, conversation_history')
              /\ UNCHANGED <<uploaded_files, current_cache_name, provider_caches,
                             cache_source>>
        /\ last'.op = "remove_file" =>
              /\ \E i \in 0..(Len(uploaded_files) - 1) :
                    uploaded_files' = Pop(uploaded_files, i)
              /\ current_cache_name' = NoCache
                    \/ cache_source' = FileParts(uploaded_files')
              /\ UNCHANGED conversation_history
        /\ last'.op = "upload_file" =>
              /\ uploaded_files' = uploaded_files \o BatchEntries(last'.input)
              /\ current_cache_name' = NoCache
                    \/ cache_source' = FileParts(uploaded_files')
              /\ UNCHANGED conversation_history
      ]_vars

\* a turn over a Shelf of one file committed its two entries, and the token
\* count of its refresh failed
C19_Witness ==
    /\ last.op = "send_chat"
    /\ Has(last.events, "meter_fallback")
    /\ Len(conversation_history) = 2
    /\ Len(uploaded_files) = 1
\* ------------------------------------------------------- ingestion claims
IngestionFailures == {"ingestion_failed", "count_error"}

\* C20: when the provider reports FAILED for an uploaded file, or the token
\* count for it fails, only that file's add is aborted: the Shelf as it was is
\* kept, the failed file is not on it, and every other file of the batch is
\* added.
C20_FailureAbortsOnlyThatFile ==
    [][(last'.op \in FileAddOps /\ last'.outcome \in IngestionFailures) =>
          /\ IsPrefix(uploaded_files, uploaded_files')
          /\ Len(uploaded_files') = Len(uploaded_files) + Len(last'.input) - 1
      ]_vars
\* ------------------------------------------------------- temporary files
\* C21: every temporary local file made for an upload (the converted file, the
\* downloaded or scraped file) is deleted by the time the handler ends, on
\* every path: success, upload-call failure, ingestion FAILED, token-count
\* failure.
C21_NoTempFileLeft == last.temp = {}
\* ------------------------------------------------------ concurrency claims
\* C22: at most one conversation turn is in flight at any time: no second
\* send_chat builds or streams while an earlier turn has neither finalized
\* nor failed.
C22_AtMostOneTurnInFlight == Cardinality(InFlight) <= 1
\* C23: Shelf mutations and cache rebuilds are strictly serialized: while a
\* rebuild is between reading the Shelf and the return of the create call, no
\* add or remove changes the Shelf, and no two rebuilds overlap.
C23_RebuildsSerialized ==
    /\ Cardinality(Rebuilding) <= 1
    /\ \A t \in Rebuilding : threads[t].snapshot = uploaded_files
\* ------------------------------------------------------- history contents
\* C24: every history entry holds plain text only; file references are never
\* stored in history, also on the turns whose outgoing final message was
\* replaced by the file references plus the user text.
C24_HistoryIsPlainText ==
    \A i \in 1..Len(conversation_history) :
        /\ Len(conversation_history[i].parts) = 1
        /\ conversation_history[i].parts[1].kind = "text"

\* a turn whose last outgoing message carried a file reference was committed
C24_Witness ==
    /\ TurnCommitted(last)
    /\ Len(conversation_history) = 2
    /\ IsInline(last.request.contents[Len(last.request.contents)])
\* ------------------------------------------------------- category claims
Categories == {"documents", "images", "videos", "audio", "links", "other"}

\* C25: get_file_category answers with exactly one of the six categories for
\* every name and mime value; a name with the link marker is links and a name
\* with the recording marker is audio whatever the mime value; otherwise the
\* mime rules apply in the order image, video, audio, document, other.
C25_CategoryIsTotalAndOrdered ==
    last.op = "get_file_category" =>
        LET name == last.input[1].name
            mime == last.input[1].mime
            category == last.response[1]
            marked == name.prefix \in {"LINK", "MIC"}
            document == "pdf" \in mime \/ "text" \in mime
                        \/ name.suffix \in {".xlsx", ".pptx"}
        IN /\ category \in Categories
           /\ name.prefix = "LINK" => category = "links"
           /\ name.prefix = "MIC" => category = "audio"
           /\ ~marked =>
                /\ category = "images" <=> "image" \in mime
                /\ category = "videos" <=> "video" \in mime /\ "image" \notin mime
                /\ category = "audio" <=>
                      "audio" \in mime /\ mime \cap {"image", "video"} = {}
                /\ category = "documents" <=>
                      document /\ mime \cap {"image", "video", "audio"} = {}
                /\ category = "links" <=> FALSE

\* a link entry whose mime value names an image is filed under links
C25_Witness ==
    /\ last.op = "get_file_category"
    /\ last.input[1].name.prefix = "LINK"
    /\ "image" \in last.input[1].mime
    /\ last.response = <<"links">>
\* --------------------------------------------------------- polling claims
\* C26: the polling loop asks again while the state is PROCESSING, with no
\* bound on the rounds: once the provider reports another state the upload
\* handler ends (file added, or error reported) with its button enabled and
\* the loading ring hidden; while the provider reports PROCESSING the handler
\* does not leave the loop.
C26_PollingEndsOnlyWhenProviderSettles ==
    /\ \A t \in ThreadIds : (threads[t].pc = "polling") ~> (threads[t] = Idle)
    /\ [][\A t \in ThreadIds :
            /\ (threads[t].op = "upload_file" /\ threads'[t] = Idle) =>
                  /\ ~controls'.upload_btn_disabled
                  /\ ~controls'.loading_ring_visible
                  /\ last'.op = "upload_file"
                  /\ last'.outcome = "ok" <=>
                        Len(uploaded_files') = Len(uploaded_files)
                        /\ threads[t].pc \in {"rebuild", "creating"}
            /\ (threads[t].pc = "polling" /\ threads[t].file_state = "PROCESSING"
                 /\ threads'[t].pc # "polling") =>
                  last'.outcome = "get_error"
        ]_vars

\* an upload whose file was PROCESSING for MaxPolls rounds has ended with the
\* file on the Shelf and the controls ready
C26_Witness ==
    /\ last.op = "upload_file"
    /\ last.outcome = "ok"
    /\ Len(SelectSeq(last.events, LAMBDA ev : ev = "poll")) = MaxPolls
    /\ uploaded_files # <<>>
    /\ threads = NoThreads
    /\ controls = ControlsReady
\* ----------------------------------------------------------- cache claims
\* C27: whenever a generation request references a cache, that cache exists
\* at the provider at the time of the request: no request names a cache that
\* was deleted or has passed its time-to-live.
C27_ReferencedCacheExists ==
    (last.op = "send_chat" /\ last.request.sent
     /\ last.request.cached_content # NoCache) =>
        \E c \in provider_caches : c.name = last.request.cached_content
\* ---------------------------------------------------------- remove claims
\* C28: remove_file(i) with 0 <= i < len(Shelf) removes exactly the entry at
\* position i and keeps the others, duplicates of the removed file included,
\* in their order; with any other index the Shelf and the cache reference are
\* unchanged and there is no cache rebuild and no token refresh.
C28_RemoveFileFrame ==
    [][last'.op = "remove_file" =>
        LET i == last'.input[1]
        IN IF 0 <= i /\ i < Len(uploaded_files)
           THEN /\ Len(uploaded_files') = Len(uploaded_files) - 1
                /\ \A k \in 1..Len(uploaded_files') :
                      uploaded_files'[k] = uploaded_files[IF k <= i THEN k ELSE k + 1]
                /\ Has(last'.events, "rebuild")
           ELSE /\ UNCHANGED <<uploaded_files, current_cache_name, provider_caches,
                               cache_source>>
                /\ last'.events = <<>>
      ]_vars

\* the second of two entries was removed and one entry is left
C28_Witness ==
    /\ last.op = "remove_file"
    /\ last.outcome = "ok"
    /\ last.input = <<1>>
    /\ Len(uploaded_files) = 1
\* ------------------------------------------------------- file name claims
\* C29: for every input the result of sanitize_filename contains no path
\* separator ('/' or '\') and no '..' sequence.
C29_SanitizedNameCannotTraverse ==
    last.op = "sanitize_filename" =>
        LET result == last.response[1]
        IN /\ \A k \in 1..Len(result) : result[k] \notin {"/", "\\"}
           /\ \A k \in 1..(Len(result) - 1) : ~(result[k] = "." /\ result[k + 1] = ".")

\* --------------------------------------------------------- message claims
\* C30: whenever validate_message returns instead of raising, the returned
\* message is non-empty, contains no null byte and is at most 50,000
\* characters long.
C30_ReturnedMessageIsSane ==
    (last.op = "validate_message" /\ last.outcome = "ok") =>
        /\ last.response # <<>>
        /\ \A k \in 1..Len(last.response) : last.response[k] # "NUL"
        /\ TextLen(last.response) <= MAX_MESSAGE_LENGTH
====
